---- MODULE Spec2Model ----
(***************************************************************************)
(* A model of cygcheck-dep.py: the setup.ini parser (parse_setup_ini), the *)
(* construction of the working and reverse graphs in main(), and the       *)
(* queries requires, leaves, islands and broken (needs, which prints a     *)
(* list of the reverse graph, and the queries that go through tarjan.tc    *)
(* are left out).                                                          *)
(*                                                                         *)
(* A dict is a function whose DOMAIN is the dict's key set; a defaultdict  *)
(* is the same function read through Get, and a read of a missing key that *)
(* inserts it is written out with Put.  A list is a sequence.  A line of   *)
(* setup.ini is the record of what the parser's regular expressions take   *)
(* from it: the keyword (or "@", or the bracketed tag) and the items of    *)
(* its value.                                                              *)
(***************************************************************************)
EXTENDS Integers, Sequences, FiniteSets, TLC

VARIABLES
    pc,               \* where the run is: "reading", "parsed", "done" or how it ended
    nread,            \* number of lines of the file read so far
    line,             \* parse_setup_ini: the line just read
    name,             \* parse_setup_ini: current package name (NONE while unbound)
    done_with_entry,  \* parse_setup_ini: the sub-block suppression flag
    g,                \* parse_setup_ini: the graph under construction
    h,                \* parse_setup_ini: the provides dict, in insertion order
    S,                \* parse_setup_ini: the obsoletes set
    all_pkgs_graph,   \* main: the graph returned by parse_setup_ini (a defaultdict)
    obs,              \* main: the obsoletes set returned by parse_setup_ini
    args,             \* main: the parsed command line
    installed,        \* main: what get_installed_pkgs() returned
    inst,             \* main: the installed set after line 216 / line 224
    inst_plus_base,   \* main: the vertex list handed to reverse()
    work_g,           \* main: the working graph g
    rev_g,            \* main: the reverse graph
    out,              \* main: the list printed by requires / leaves
    islands,          \* main: the components printed by islands
    missing,          \* report_broken: package -> missing dependencies
    unknown,          \* report_broken: unknown packages
    rG, rV, r1, r2    \* reverse() applied twice to a graph rG and a vertex set rV

parseVars == <<nread, line, name, done_with_entry, g, h, S>>
mainVars == <<args, installed, inst, inst_plus_base, work_g, rev_g, out, islands,
              missing, unknown>>
revVars == <<rG, rV, r1, r2>>
vars == <<pc, parseVars, all_pkgs_graph, obs, mainVars, revVars>>

-----------------------------------------------------------------------------
(* Bounds *)

MaxLines == 5      \* lines of setup.ini read by one run of the parser
MaxEdges == 3      \* dependency entries in a graph drawn as input
MaxObs == 1        \* names in the obsoletes set drawn as input

-----------------------------------------------------------------------------
(* Values *)

BASE == "BASE"
NONE == "<none>"

Range(s) == {s[i] : i \in DOMAIN s}

EmptyDict == [x \in {} |-> <<>>]

\* d[k] = v
Put(d, k, v) == [x \in DOMAIN d \cup {k} |-> IF x = k THEN v ELSE d[x]]

\* d[k] on a defaultdict(list), as a value
Get(d, k) == IF k \in DOMAIN d THEN d[k] ELSE <<>>

\* Python's order on the package names used here
NameOrder == <<"A", "B", "BASE", "C", "V">>

Rank(n) == CHOOSE i \in DOMAIN NameOrder : NameOrder[i] = n

RECURSIVE Insert(_, _)
Insert(s, x) ==
    IF s = <<>> THEN <<x>>
    ELSE IF Rank(x) < Rank(Head(s)) THEN <<x>> \o s
    ELSE <<Head(s)>> \o Insert(Tail(s), x)

\* sorted(l)
RECURSIVE sorted(_)
sorted(l) == IF l = <<>> THEN <<>> ELSE Insert(sorted(Tail(l)), Head(l))

-----------------------------------------------------------------------------
(* parse_setup_ini *)

AtLine(n) == [kw |-> "@", val |-> <<n>>]
TagLine(t) == [kw |-> t, val |-> <<>>]
KwLine(k, v) == [kw |-> k, val |-> v]
BlankLine == [kw |-> "", val |-> <<>>]

\* The lines a setup.ini is drawn from
Lines ==
    {AtLine("A"), AtLine("B"), TagLine("[prev]"), TagLine("[test]"), BlankLine}
    \cup {KwLine("category", v) : v \in {<<"Base">>, <<"Libs", "Base">>, <<"Libs">>}}
    \cup {KwLine("depends2", v) : v \in {<<>>, <<"V">>, <<"B", "V">>}}
    \cup {KwLine("provides", v) : v \in {<<"V">>, <<"A">>}}
    \cup {KwLine("obsoletes", v) : v \in {<<"V">>}}
    \cup {KwLine("requires", <<"B">>)}

\* re.match(r'^@\s+(\S+)', line)
IsAtLine(l) == l.kw = "@"

StartsSubBlock_tagPrevOnly(l) == l.kw = "[prev]"

\* line.startswith('[prev]') or line.startswith('[test]')
StartsSubBlock(l) == l.kw \in {"[prev]", "[test]"}

\* re.match(r'^(\S+):\s*(.*)$', line)
IsKeywordLine(l) == l.kw \notin {"@", "", "[prev]", "[test]"}

\* re.match(r'\bBase\b', value): re.match anchors at the start of value
CategoryIsBase(value) == value # <<>> /\ value[1] = "Base"

\* h[k] = v on an insertion-ordered dict kept as a sequence of entries
HPut(d, k, v) ==
    IF \E i \in DOMAIN d : d[i].key = k
    THEN [i \in DOMAIN d |-> IF d[i].key = k THEN [key |-> k, val |-> v] ELSE d[i]]
    ELSE Append(d, [key |-> k, val |-> v])

Rewrite_headOnly(l, p, v) ==
    [i \in DOMAIN l |-> IF i = 1 /\ l[i] = v THEN p ELSE l[i]]

\* [p if x == h[p][0] else x for x in g[q]]
Rewrite(l, p, v) == [i \in DOMAIN l |-> IF l[i] = v THEN p ELSE l[i]]

\* for p in h: for q in g: g[q] = ...
RECURSIVE ResolveAll(_, _)
ResolveAll(gr, hd) ==
    IF hd = <<>> THEN gr
    ELSE ResolveAll([q \in DOMAIN gr |-> Rewrite(gr[q], Head(hd).key, Head(hd).val[1])],
                    Tail(hd))

\* One iteration of the loop over the lines of the file, on the state
\* st = [name, done, g, h, S, err].
ParseStep(st, l) ==
    LET name1 == IF IsAtLine(l) THEN l.val[1] ELSE st.name
        g1 == IF IsAtLine(l) THEN Put(st.g, name1, <<>>) ELSE st.g
        done1 == IF IsAtLine(l) THEN FALSE ELSE st.done
        st1 == [st EXCEPT !.name = name1, !.g = g1, !.done = done1]
    IN  IF done1 THEN st1
        ELSE IF StartsSubBlock(l) THEN [st1 EXCEPT !.done = TRUE]
        ELSE IF ~IsKeywordLine(l) THEN st1
        ELSE IF l.kw = "category" /\ CategoryIsBase(l.val)
             THEN IF name1 = NONE THEN [st1 EXCEPT !.err = TRUE]
                  ELSE [st1 EXCEPT !.g = Put(g1, BASE, Append(Get(g1, BASE), name1))]
        ELSE IF l.kw = "depends2" /\ l.val # <<>>
             THEN IF name1 = NONE THEN [st1 EXCEPT !.err = TRUE]
                  ELSE [st1 EXCEPT !.g = Put(g1, name1, l.val)]
        ELSE IF l.kw = "provides" /\ l.val # <<>>
             THEN IF name1 = NONE THEN [st1 EXCEPT !.err = TRUE]
                  ELSE [st1 EXCEPT !.h = HPut(st.h, name1, l.val)]
        ELSE IF l.kw = "obsoletes" /\ l.val # <<>>
             THEN [st1 EXCEPT !.S = st.S \cup Range(l.val)]
        ELSE st1

IdleMain ==
    /\ args = [all |-> FALSE, quiet |-> FALSE, query |-> NONE, package |-> NONE]
    /\ installed = <<>>
    /\ inst = {}
    /\ inst_plus_base = {}
    /\ work_g = EmptyDict
    /\ rev_g = EmptyDict
    /\ out = <<>>
    /\ islands = {}
    /\ missing = EmptyDict
    /\ unknown = {}

IdleParse ==
    /\ nread = 0
    /\ line = BlankLine
    /\ name = NONE
    /\ done_with_entry = FALSE
    /\ g = EmptyDict
    /\ h = <<>>
    /\ S = {}

IdleRev ==
    /\ rG = EmptyDict
    /\ rV = {}
    /\ r1 = EmptyDict
    /\ r2 = EmptyDict

\* The state on entry to the loop of parse_setup_ini
InitParse ==
    /\ pc = "reading"
    /\ IdleParse
    /\ all_pkgs_graph = EmptyDict
    /\ obs = {}
    /\ IdleMain
    /\ IdleRev

\* The loop body, on the next line of the file
ReadLine ==
    /\ pc = "reading"
    /\ nread < MaxLines
    /\ \E l \in Lines :
        LET st == ParseStep([name |-> name, done |-> done_with_entry, g |-> g,
                             h |-> h, S |-> S, err |-> FALSE], l)
        IN  /\ line' = l
            /\ nread' = nread + 1
            /\ name' = st.name
            /\ done_with_entry' = st.done
            /\ g' = st.g
            /\ h' = st.h
            /\ S' = st.S
            /\ pc' = IF st.err THEN "NameError" ELSE "reading"
    /\ UNCHANGED <<all_pkgs_graph, obs, mainVars, revVars>>

\* End of file: alias resolution and return
EndOfFile ==
    /\ pc = "reading"
    /\ g' = ResolveAll(g, h)
    /\ all_pkgs_graph' = g'
    /\ obs' = S
    /\ pc' = "parsed"
    /\ UNCHANGED <<nread, line, name, done_with_entry, h, S, mainVars, revVars>>

NextParse == ReadLine \/ EndOfFile

SpecParse == InitParse /\ [][NextParse]_vars

-----------------------------------------------------------------------------
(* main: graph construction, the broken-dependency report and the queries *)

Names == {"A", "B", "C"}

\* g[p].append(q)
AddEdge(G, p, q) == Put(G, p, Append(Get(G, p), q))

\* sorted(S) for a set S
RECURSIVE SortedSeqOf(_)
SortedSeqOf(T) ==
    IF T = {} THEN <<>>
    ELSE LET m == CHOOSE x \in T : \A y \in T : Rank(x) <= Rank(y)
         IN  <<m>> \o SortedSeqOf(T \ {m})

\* Lists are drawn without repeats and in descending name order, so that
\* sorted() has work to do.
CanAppend(l, q) == l = <<>> \/ Rank(q) < Rank(l[Len(l)])

\* The entries that can be added to G: every recorded package is a key, a
\* dependency may name anything, and BASE is a key only once a recorded
\* package was appended to its list.
AddableEdges(G) ==
    {e \in (DOMAIN G \cup {BASE}) \X Names :
        /\ CanAppend(Get(G, e[1]), e[2])
        /\ e[1] = BASE => e[2] \in DOMAIN G}

RECURSIVE InputGraphsUpTo(_)
InputGraphsUpTo(n) ==
    IF n = 0 THEN {[k \in K |-> <<>>] : K \in SUBSET Names}
    ELSE LET prev == InputGraphsUpTo(n - 1)
         IN  prev \cup UNION {{AddEdge(G, e[1], e[2]) : e \in AddableEdges(G)} : G \in prev}

InputGraphs == InputGraphsUpTo(MaxEdges)

InputObs == {O \in SUBSET Names : Cardinality(O) <= MaxObs}

\* What get_installed_pkgs() can return: installed.db lists each installed
\* package once, in name order
InstalledLists == {SortedSeqOf(T) : T \in SUBSET Names}

Queries == {"requires", "leaves", "islands", "broken"}

\* The command lines: PACKAGE is given to the package-scoped query only
Args ==
    {a \in [all : BOOLEAN, quiet : BOOLEAN, query : Queries,
            package : Names \cup {BASE, NONE}] :
        a.query # "requires" => a.package = NONE}

RECURSIVE Repeat(_, _)
Repeat(x, n) == IF n = 0 THEN <<>> ELSE <<x>> \o Repeat(x, n - 1)

Occurrences(l, x) == Cardinality({i \in DOMAIN l : l[i] = x})

\* h[q] after the loop of reverse(): one p for every occurrence of q in g[p].
\* The iteration order of the dict is not modelled; the list is in name order.
RECURSIVE Dependents(_, _, _)
Dependents(gr, keys, q) ==
    IF keys = <<>> THEN <<>>
    ELSE Repeat(Head(keys), Occurrences(gr[Head(keys)], q))
         \o Dependents(gr, Tail(keys), q)

\* the lists of g handed back unreversed
reverse_forward(gr, V) == [q \in V |-> Get(gr, q)]

\* no restriction of the keys to V
reverse_allKeys(gr, V) ==
    [q \in V \cup UNION {Range(gr[p]) : p \in DOMAIN gr}
        |-> Dependents(gr, SortedSeqOf(DOMAIN gr), q)]

\* reverse(g, V)
reverse(gr, V) == [q \in V |-> Dependents(gr, SortedSeqOf(DOMAIN gr), q)]

\* find_missing_deps(g, I)
find_missing_deps(gr, I) ==
    [p \in {p \in DOMAIN gr : \E q \in Range(gr[p]) : q \notin I}
        |-> SelectSeq(gr[p], LAMBDA q : q \notin I)]

\* find_unknown_pkgs(g, I)
find_unknown_pkgs(gr, I) == {p \in I : p \notin DOMAIN gr}

\* sorted([p for p in inst if not rev_g[p]])
leaves(I, rg) == SortedSeqOf({p \in I : rg[p] = <<>>})

\* The vertices tarjan() visits: the keys and everything a key lists
Vertices(gr) == DOMAIN gr \cup UNION {Range(gr[p]) : p \in DOMAIN gr}

RECURSIVE ReachFrom(_, _)
ReachFrom(gr, T) ==
    LET T1 == T \cup UNION {Range(Get(gr, v)) : v \in T}
    IN  IF T1 = T THEN T ELSE ReachFrom(gr, T1)

SCCOf(gr, v) == {w \in ReachFrom(gr, {v}) : v \in ReachFrom(gr, {w})}

SCCs(gr) == {SCCOf(gr, v) : v \in Vertices(gr)}

\* tarjan.tarjan(g): the strongly-connected components, a component coming
\* after every component it has an edge into
tarjan(gr) ==
    LET C == SCCs(gr)
        n == Cardinality(C)
    IN  {s \in [1..n -> C] :
            /\ \A i, j \in 1..n : s[i] = s[j] => i = j
            /\ \A i, j \in 1..n :
                 (\E v \in s[i], w \in s[j] : w \in Range(Get(gr, v))) => j <= i}

\* find_islands(g) on sccs = tarjan.tarjan(g); isDefault says that g is the
\* defaultdict itself.  g[v] is read for every vertex of every component.
find_islands(gr, isDefault, sccs) ==
    LET n == Len(sccs)
        scc_ind(v) == CHOOSE i \in 1..n : v \in sccs[i]
        is_island(j) ==
            /\ Cardinality(sccs[j]) > 1
            /\ ~ \E i \in 1..n : \E v \in sccs[i] : \E w \in Range(Get(gr, v)) :
                   scc_ind(w) = j /\ scc_ind(w) < i
    IN  [err |-> ~isDefault /\ \E v \in Vertices(gr) : v \notin DOMAIN gr,
         islands |-> {sccs[j] : j \in {j \in 1..n : is_island(j)}},
         g |-> [v \in Vertices(gr) |-> Get(gr, v)]]

\* Lines 207-224: [apg, inst, inst_plus_base, g, err]
BuildGraph(apg, ob, all, I) ==
    IF all
    THEN [apg |-> apg, inst |-> DOMAIN apg \ {BASE}, inst_plus_base |-> DOMAIN apg,
          g |-> apg, err |-> BASE \notin DOMAIN apg]
    ELSE LET \* all_pkgs_graph[p] inserts p when p has no entry
             apg1 == [p \in DOMAIN apg \cup Range(I) |-> Get(apg, p)]
             set_inst == Range(I) \cup UNION {Range(apg1[p]) \cap ob : p \in Range(I)}
             ipb == set_inst \cup {BASE}
         IN  [apg |-> apg1, inst |-> set_inst, inst_plus_base |-> ipb,
              g |-> [p \in DOMAIN apg1 \cap ipb |-> apg1[p]], err |-> FALSE]

\* Lines 207-270 on the command line a and the installed list I
Main(a, I) ==
    LET b == BuildGraph(all_pkgs_graph, obs, a.all, I)
        reported == (~a.quiet /\ a.query # "broken") \/ a.query = "broken"
        scoped == a.query = "requires"
        rg == reverse(b.g, b.inst_plus_base)
        \* with -a, g is all_pkgs_graph itself, and find_islands reads g[v]
        inserted == a.all /\ ~b.err /\ a.query = "islands"
    IN  /\ pc = "parsed"
        /\ args' = a
        /\ installed' = I
        /\ all_pkgs_graph' = IF inserted THEN [v \in Vertices(b.g) |-> Get(b.g, v)]
                              ELSE b.apg
        /\ inst' = b.inst
        /\ inst_plus_base' = b.inst_plus_base
        /\ IF b.err
           THEN /\ pc' = "ValueError"
                /\ work_g' = b.g
                /\ UNCHANGED <<rev_g, out, islands, missing, unknown>>
           ELSE /\ missing' = IF reported THEN find_missing_deps(b.g, b.inst) ELSE missing
                /\ unknown' = IF reported THEN find_unknown_pkgs(b.g, b.inst) ELSE unknown
                /\ IF scoped /\ a.package = NONE
                   THEN /\ pc' = "MissingArgument"
                        /\ work_g' = b.g
                        /\ UNCHANGED <<rev_g, out, islands>>
                   ELSE IF scoped /\ a.package \notin b.inst
                   THEN /\ pc' = "NotFound"
                        /\ work_g' = b.g
                        /\ UNCHANGED <<rev_g, out, islands>>
                   ELSE IF a.query = "requires"
                   THEN /\ rev_g' = rg
                        /\ work_g' = b.g
                        /\ pc' = IF a.package \in DOMAIN b.g THEN "done" ELSE "KeyError"
                        /\ out' = IF a.package \in DOMAIN b.g
                                  THEN sorted(b.g[a.package]) ELSE out
                        /\ UNCHANGED islands
                   ELSE IF a.query = "leaves"
                   THEN /\ rev_g' = rg
                        /\ work_g' = b.g
                        /\ pc' = "done"
                        /\ out' = leaves(b.inst, rg)
                        /\ UNCHANGED islands
                   ELSE IF a.query = "islands"
                   THEN \E sccs \in tarjan(b.g) :
                          LET r == find_islands(b.g, a.all, sccs)
                          IN  /\ pc' = IF r.err THEN "KeyError" ELSE "done"
                              /\ islands' = IF r.err THEN islands ELSE r.islands
                              /\ work_g' = IF a.all THEN r.g ELSE b.g
                              /\ UNCHANGED <<rev_g, out>>
                   ELSE /\ pc' = "done"
                        /\ work_g' = b.g
                        /\ UNCHANGED <<rev_g, out, islands>>
        /\ UNCHANGED <<parseVars, obs, revVars>>

\* The state when parse_setup_ini has returned (line 204)
InitMain ==
    /\ pc = "parsed"
    /\ IdleParse
    /\ all_pkgs_graph \in InputGraphs
    /\ obs \in InputObs
    /\ IdleMain
    /\ IdleRev

Run(q) ==
    \E a \in Args :
        /\ a.query = q
        /\ \E I \in (IF a.all THEN {<<>>} ELSE InstalledLists) : Main(a, I)

RunRequires == Run("requires")
RunLeaves == Run("leaves")
RunIslands == Run("islands")
RunBroken == Run("broken")

NextMain == RunRequires \/ RunLeaves \/ RunIslands \/ RunBroken

\* Every query
SpecMain == InitMain /\ [][NextMain]_vars

\* The runs with -l
SpecLeaves == InitMain /\ [][RunLeaves]_vars

-----------------------------------------------------------------------------
(* reverse() as a function of any graph and any vertex set *)

InitReverse ==
    /\ pc = "reverse"
    /\ IdleParse
    /\ all_pkgs_graph = EmptyDict
    /\ obs = {}
    /\ IdleMain
    /\ rG \in InputGraphs
    /\ rV \in SUBSET (Names \cup {BASE})
    /\ r1 = EmptyDict
    /\ r2 = EmptyDict

ReverseOnce ==
    /\ pc = "reverse"
    /\ r1' = reverse(rG, rV)
    /\ pc' = "reversed"
    /\ UNCHANGED <<parseVars, all_pkgs_graph, obs, mainVars, rG, rV, r2>>

ReverseTwice ==
    /\ pc = "reversed"
    /\ r2' = reverse(r1, rV)
    /\ pc' = "reversed twice"
    /\ UNCHANGED <<parseVars, all_pkgs_graph, obs, mainVars, rG, rV, r1>>

NextReverse == ReverseOnce \/ ReverseTwice

SpecReverse == InitReverse /\ [][NextReverse]_vars

-----------------------------------------------------------------------------
(* Properties *)

\* A step of main() that got past graph construction
MainStep == pc = "parsed" /\ pc' \in {"done", "NotFound", "MissingArgument", "KeyError"}

\* report_broken ran in that step (line 227 or line 270)
Reported(a) == ~a.quiet \/ a.query = "broken"

\* C1: in installed mode the "unknown" list of the broken-dependency report
\* holds exactly those installed packages that are not a key of the graph
\* the parser returned.
C1_UnknownIsInstalledWithoutRecord ==
    [][(MainStep /\ ~args'.all /\ Reported(args')) =>
        \A p \in Range(installed') :
            p \in unknown' <=> p \notin DOMAIN all_pkgs_graph]_vars

\* C2: an obsoleted name q that an installed package lists, and that is not
\* installed itself, is in the installed set the working graph is built from
\* and is not reported as unknown, with or without a record of its own.
C2_ObsoletedNeverUnknown ==
    [][(MainStep /\ ~args'.all) =>
        \A p \in Range(installed') :
            \A q \in (Range(Get(all_pkgs_graph, p)) \cap obs) \ Range(installed') :
                /\ q \in inst'
                /\ Reported(args') => q \notin unknown']_vars

\* The vertex set of the working graph as the claims state it
VertexSet(a, apg, I) == IF a.all THEN DOMAIN apg ELSE I \cup {BASE}

\* C3: requires(p) ends in NotFound exactly when p is outside the vertex set,
\* and for p inside it (BASE included) prints the sorted list g[p]; it ends in
\* no other way.
C3_RequiresTotalOnVertexSet ==
    [][(pc = "parsed" /\ pc' # "parsed" /\ args'.query = "requires"
            /\ args'.package # NONE) =>
        LET V == VertexSet(args', all_pkgs_graph, inst')
        IN  /\ pc' \in {"done", "NotFound"}
            /\ pc' = "NotFound" <=> args'.package \notin V
            /\ args'.package \in V => out' = sorted(Get(work_g', args'.package))]_vars

\* The components of gr with more than one vertex that no vertex of another
\* component has an edge into
IslandsOf(gr) ==
    {C \in SCCs(gr) :
        /\ Cardinality(C) > 1
        /\ ~ \E v \in Vertices(gr) \ C : Range(Get(gr, v)) \cap C # {}}

\* C4: on every working graph the islands query returns exactly the
\* components of size > 1 without an incoming edge from another component.
C4_IslandsExact ==
    [][(pc = "parsed" /\ pc' # "parsed" /\ pc' # "ValueError"
            /\ args'.query = "islands") =>
        pc' = "done" /\ islands' = IslandsOf(work_g')]_vars

\* What the islands query returns when it returns
IslandsExactWhenReturned ==
    (pc = "done" /\ args.query = "islands") => islands = IslandsOf(work_g)

\* The first name of the provides list of the i-th provider
Virtual(i) == h[i].val[1]

\* For the i-th provider p with virtual name v: after resolution no list
\* holds v, every position that held v holds p, and every entry that is no
\* provider's virtual name is as it was.
ResolvedFor(i) ==
    LET p == h[i].key
        v == Virtual(i)
    IN  /\ DOMAIN g' = DOMAIN g
        /\ \A q \in DOMAIN g' : v \notin Range(g'[q])
        /\ \A q \in DOMAIN g :
            /\ Len(g'[q]) = Len(g[q])
            /\ \A j \in DOMAIN g[q] :
                /\ g[q][j] = v => g'[q][j] = p
                /\ g[q][j] \notin {Virtual(k) : k \in DOMAIN h} => g'[q][j] = g[q][j]

ResolveStep == pc = "reading" /\ pc' = "parsed"

SoleProvider(i) ==
    /\ Virtual(i) # h[i].key
    /\ \A k \in DOMAIN h : k < i => Virtual(k) # Virtual(i)
    /\ \A k \in DOMAIN h : k > i => (Virtual(k) # h[i].key /\ h[k].key # Virtual(i))

C6_LeavesAreTheUnrequired ==
    (pc = "done" /\ args.query = "leaves") =>
        /\ Range(out) = {p \in inst : \A v \in DOMAIN work_g : p \notin Range(work_g[v])}
        /\ \A i, j \in DOMAIN out : i < j => Rank(out[i]) < Rank(out[j])
        /\ BASE \notin Range(out)
        /\ \A p \in Range(out) : rev_g[p] = <<>>

\* C6 witness: A requires B and B is in Base, both installed: A is the only
\* leaf, B is needed by A and by BASE.
C6_Witness ==
    /\ pc = "done" /\ args.query = "leaves" /\ ~args.all
    /\ inst = {"A", "B"}
    /\ rev_g = [q \in {"A", "B", BASE} |->
                    IF q = "B" THEN <<"A", BASE>> ELSE <<>>]
    /\ out = <<"A">>

Edges(gr) == {e \in (DOMAIN gr) \X Vertices(gr) : e[2] \in Range(gr[e[1]])}

\* C7: reverse(reverse(G, V), V) has the edge p -> q exactly when G has it
\* and both p and q are in V.
C7_ReverseTwiceIsRestriction ==
    pc = "reversed twice" =>
        Edges(r2) = {e \in Edges(rG) : e[1] \in rV /\ e[2] \in rV}

\* C7 witness: reverse was applied twice to a graph with an edge inside V,
\* which is kept, and an edge leaving V, which is dropped.
C7_Witness ==
    /\ pc = "reversed twice"
    /\ \E e \in Edges(rG) : e[1] \in rV /\ e[2] \in rV /\ e \in Edges(r2)
    /\ \E e \in Edges(rG) : e[1] \in rV /\ e[2] \notin rV /\ e \notin Edges(r2)
    /\ \E e \in Edges(rG) : e[1] \notin rV /\ e[2] \in rV /\ e \notin Edges(r2)

\* C8: once the graphs are built, the working graph and the reverse graph
\* have the same keys.
C8_SameVertexSet ==
    (pc \in {"done", "KeyError"} /\ args.query \in {"requires", "leaves"}) =>
        DOMAIN work_g = DOMAIN rev_g

ReadStep == pc = "reading" /\ pc' = "reading" /\ nread' = nread + 1

\* C9: a package is appended to BASE's list exactly when an unsuppressed
\* category line of its record has "Base" among the words of its value, at
\* any position.
C9_BaseIffCategoryHasWordBase ==
    [][ReadStep =>
        LET unsuppressed == ~done_with_entry /\ name # NONE /\ ~IsAtLine(line')
            baseCategory == line'.kw = "category" /\ "Base" \in Range(line'.val)
        IN  IF unsuppressed /\ baseCategory
            THEN Get(g', BASE) = Append(Get(g, BASE), name)
            ELSE Get(g', BASE) = Get(g, BASE)]_vars

\* C10: a line starting with [prev] or [test] sets the suppression; while it
\* is set no line but an @ line changes the graph, the provides dict or the
\* obsoletes set; an @ line clears it and registers the package with an empty
\* list; and unsuppressed keyword lines take effect.
C10_SubBlockSuppression ==
    [][ReadStep =>
        /\ line'.kw \in {"[prev]", "[test]"} => done_with_entry'
        /\ (done_with_entry /\ line'.kw # "@") =>
                done_with_entry' /\ g' = g /\ h' = h /\ S' = S
        /\ line'.kw = "@" =>
                /\ ~done_with_entry'
                /\ name' = line'.val[1]
                /\ g' = Put(g, name', <<>>)
        /\ (~done_with_entry /\ name # NONE /\ line'.val # <<>>) =>
                /\ line'.kw = "depends2" => g'[name] = line'.val
                /\ line'.kw = "provides" =>
                        \E i \in DOMAIN h' : h'[i] = [key |-> name, val |-> line'.val]
                /\ line'.kw = "obsoletes" => Range(line'.val) \subseteq S']_vars

\* C10 witness: a depends2 line was just read under suppression and left the
\* current package's list empty.
C10_Witness ==
    /\ pc = "reading"
    /\ done_with_entry
    /\ line = KwLine("depends2", <<"V">>)
    /\ name = "B" /\ g["B"] = <<>>
    /\ "A" \in DOMAIN g /\ g["A"] = <<"V">>

====
